---- MODULE Spec2Model ----
(***************************************************************************)
(* A model of the generic multi-value IPv4 bitwise trie of                 *)
(* src/src/radix_trie.rs: TrieNode::insert / TrieNode::get, the Trie       *)
(* operations built on them, the CIDR text parser and the bincode          *)
(* persistence of the trie.                                                *)
(*                                                                         *)
(* A u32 is a sequence of W bits, most significant bit first, so that the  *)
(* shifts and the top-bit tests of the code are computed bit for bit.      *)
(***************************************************************************)
EXTENDS Integers, Sequences, FiniteSets

\* Width of u32 (the `32` of `32 - prefix`, the `31` of `1u32 << 31`).
W == 32

\* ---------------------------------------------------------------- bounds
\* Number of successful insertions explored.
MaxInserts == 2

\* ------------------------------------------------------------ u32 as bits
Range(s) == {s[i] : i \in 1..Len(s)}

\* The big-endian bits of one octet.
Byte(n) == [i \in 1..8 |-> (n \div (2 ^ (8 - i))) % 2]

\* u32::from(Ipv4Addr::new(a, b, c, d)): first octet most significant.
Ipv4(a, b, c, d) == Byte(a) \o Byte(b) \o Byte(c) \o Byte(d)

\* 0xffffffffu32
AllOnes == [i \in 1..W |-> 1]

\* x << 1 on u32: the top bit falls off, a zero enters at the bottom.
Shl1(x) == Tail(x) \o <<0>>

\* x << s on u32, for a shift amount already below the width.
RECURSIVE Shl(_, _)
Shl(x, s) == IF s = 0 THEN x ELSE Shl(Shl1(x), s - 1)

\* mask == 0
IsZero(x) == \A i \in 1..W : x[i] = 0

\* ((1u32 << 31) & ip) == 0
TopBitClear(ip) == ip[1] = 0

\* ------------------------------------------------------------- trie nodes
\* Option<T> is a sequence of length 0 (None) or 1 (Some).
None == <<>>
Some(x) == <<x>>
IsSome(o) == Len(o) > 0

\* TrieNode::empty()
EmptyNode == [l |-> None, r |-> None, v |-> None]

\* TrieNode::insert.  With mask == 0 the value is pushed on the node's
\* vector (created when absent); otherwise the top bit of ip selects the
\* child, created empty when absent, and the insertion continues in it with
\* ip and mask shifted left by one.
RECURSIVE Insert(_, _, _, _)
Insert(node, ip, mask, value) ==
    CASE IsZero(mask) ->
           [node EXCEPT !.v = IF IsSome(node.v)
                              THEN Some(Append(node.v[1], value))
                              ELSE Some(<<value>>)]
      [] TopBitClear(ip) ->
           [node EXCEPT !.l = <<Insert(
               IF IsSome(node.l) THEN node.l[1] ELSE EmptyNode,
               Shl1(ip), Shl1(mask), value)>>]
      [] OTHER ->
           [node EXCEPT !.r = <<Insert(
               IF IsSome(node.r) THEN node.r[1] ELSE EmptyNode,
               Shl1(ip), Shl1(mask), value)>>]

\* TrieNode::get descending into whichever child exists instead of the
\* child the address bit selects.
RECURSIVE NodeGetAnyChild(_, _, _, _)
NodeGetAnyChild(node, ip, mask, buffer) ==
    LET buf == IF IsSome(node.v) THEN buffer \o node.v[1] ELSE buffer
        next == IF IsSome(node.l) THEN node.l ELSE node.r
    IN  IF IsZero(mask) THEN buf
        ELSE IF IsSome(next)
             THEN NodeGetAnyChild(next[1], Shl1(ip), Shl1(mask), buf)
             ELSE buf

\* TrieNode::get: the buffer after the walk.
RECURSIVE NodeGet(_, _, _, _)
NodeGet(node, ip, mask, buffer) ==
    LET buf == IF IsSome(node.v) THEN buffer \o node.v[1] ELSE buffer
        next == IF TopBitClear(ip) THEN node.l ELSE node.r
    IN  IF IsZero(mask) THEN buf
        ELSE IF IsSome(next)
             THEN NodeGet(next[1], Shl1(ip), Shl1(mask), buf)
             ELSE buf

\* The number of nodes TrieNode::get visits.
RECURSIVE NodeGetVisits(_, _, _)
NodeGetVisits(node, ip, mask) ==
    LET next == IF TopBitClear(ip) THEN node.l ELSE node.r
    IN  IF IsZero(mask) THEN 1
        ELSE IF IsSome(next)
             THEN 1 + NodeGetVisits(next[1], Shl1(ip), Shl1(mask))
             ELSE 1

\* Trie::get
Get(root_, ip) == NodeGet(root_, ip, AllOnes, <<>>)

\* Trie::contains_ip
ContainsIp(root_, ip) == Len(NodeGet(root_, ip, AllOnes, <<>>)) # 0

\* ------------------------------------------------------------ CIDR parser
\* Text is a sequence of one-character strings.
DigitChars == <<"0", "1", "2", "3", "4", "5", "6", "7", "8", "9">>
IsDigit(c) == c \in Range(DigitChars)
DigitVal(c) == (CHOOSE k \in 1..10 : DigitChars[k] = c) - 1

\* The index of the first c in s, 0 when there is none.
IndexOf(s, c) ==
    IF \E i \in 1..Len(s) : s[i] = c
    THEN CHOOSE i \in 1..Len(s) : s[i] = c /\ \A j \in 1..(i - 1) : s[j] # c
    ELSE 0

\* s.split(c): the pieces between every occurrence of c.
RECURSIVE Split(_, _)
Split(s, c) ==
    LET k == IndexOf(s, c)
    IN  IF k = 0 THEN <<s>>
        ELSE <<SubSeq(s, 1, k - 1)>> \o Split(SubSeq(s, k + 1, Len(s)), c)

\* s.splitn(2, "/"): at most two pieces, cut at the first separator.
SplitN2(s) ==
    LET k == IndexOf(s, "/")
    IN  IF k = 0 THEN <<s>>
        ELSE <<SubSeq(s, 1, k - 1), SubSeq(s, k + 1, Len(s))>>

\* The value of a sequence of decimal digits.
RECURSIVE DecVal(_)
DecVal(d) ==
    IF Len(d) = 0 THEN 0
    ELSE 10 * DecVal(SubSeq(d, 1, Len(d) - 1)) + DigitVal(d[Len(d)])

RECURSIVE StripZeros(_)
StripZeros(d) ==
    IF Len(d) > 1 /\ d[1] = "0" THEN StripZeros(Tail(d)) ELSE d

\* u32::MAX in decimal digits.
U32MaxDigits == <<"4", "2", "9", "4", "9", "6", "7", "2", "9", "5">>

\* d > u32::MAX, for a digit sequence without leading zeros.
ExceedsU32(d) ==
    \/ Len(d) > Len(U32MaxDigits)
    \/ /\ Len(d) = Len(U32MaxDigits)
       /\ \E i \in 1..Len(d) :
            /\ \A j \in 1..(i - 1) : d[j] = U32MaxDigits[j]
            /\ DigitVal(d[i]) > DigitVal(U32MaxDigits[i])

\* str::parse::<u32>(): an optional '+', then one or more decimal digits,
\* the value not above u32::MAX.  [ok, val]
ParseU32(s) ==
    LET d == IF Len(s) > 0 /\ s[1] = "+" THEN Tail(s) ELSE s
    IN  IF Len(d) = 0 \/ (\E i \in 1..Len(d) : ~IsDigit(d[i]))
        THEN [ok |-> FALSE, val |-> 0]
        ELSE IF ExceedsU32(StripZeros(d))
             THEN [ok |-> FALSE, val |-> 0]
             ELSE [ok |-> TRUE, val |-> DecVal(StripZeros(d))]

\* One octet of a dotted quad: one to three digits, no leading zero, at
\* most 255.
OctetOk(g) ==
    /\ Len(g) \in 1..3
    /\ \A i \in 1..Len(g) : IsDigit(g[i])
    /\ (Len(g) > 1 => g[1] # "0")
    /\ DecVal(g) <= 255

\* str::parse::<Ipv4Addr>(): exactly four octets separated by '.'.
\* [ok, net]
ParseIpv4(s) ==
    LET g == Split(s, ".")
    IN  IF Len(g) = 4 /\ \A i \in 1..4 : OctetOk(g[i])
        THEN [ok |-> TRUE,
              net |-> Ipv4(DecVal(g[1]), DecVal(g[2]), DecVal(g[3]), DecVal(g[4]))]
        ELSE [ok |-> FALSE, net |-> AllOnes]

\* CidrBlock::from_str.  kind is "ok" (a CidrBlock), "err" (Err returned by
\* `?`) or "panic" (parts[1] indexed out of bounds).
CidrFromStr(s) ==
    LET parts == SplitN2(s)
        net == ParseIpv4(parts[1])
    IN  IF ~net.ok THEN [kind |-> "err", net |-> AllOnes, prefix |-> 0]
        ELSE IF Len(parts) < 2
             THEN [kind |-> "panic", net |-> AllOnes, prefix |-> 0]
             ELSE LET prefix == ParseU32(parts[2])
                  IN  IF ~prefix.ok
                      THEN [kind |-> "err", net |-> AllOnes, prefix |-> 0]
                      ELSE [kind |-> "ok", net |-> net.net, prefix |-> prefix.val]

\* cidr_to_u32_parts of util.rs is not used by the trie and is not modelled.

\* ------------------------------------------------------ persistence codec
\* Little-endian bytes of n, k of them.
RECURSIVE LeBytes(_, _)
LeBytes(n, k) ==
    IF k = 0 THEN <<>> ELSE <<n % 256>> \o LeBytes(n \div 256, k - 1)

\* The value of little-endian bytes.
RECURSIVE LeVal(_)
LeVal(b) == IF Len(b) = 0 THEN 0 ELSE b[1] + 256 * LeVal(Tail(b))

\* A varint that keeps only the low byte of the integer.
VarintEncodeLowByte(n) == <<n % 256>>

\* bincode's variable-length integer (config::standard()): one byte below
\* 251, else a marker byte and the little-endian u16 / u32.
VarintEncode(n) ==
    IF n < 251 THEN <<n>>
    ELSE IF n < 65536 THEN <<251>> \o LeBytes(n, 2)
    ELSE <<252>> \o LeBytes(n, 4)

DecodeFail == [ok |-> FALSE, val |-> <<>>, rest |-> <<>>]

\* Reads one varint whose marker may be at most maxMarker (252 for u32,
\* 253 for the u64 of a length).  [ok, val, rest]
VarintDecode(bytes, maxMarker) ==
    IF Len(bytes) = 0 THEN DecodeFail
    ELSE LET b == bytes[1]
             k == IF b = 251 THEN 2 ELSE IF b = 252 THEN 4 ELSE 8
         IN  IF b < 251 THEN [ok |-> TRUE, val |-> b, rest |-> Tail(bytes)]
             ELSE IF b > maxMarker \/ Len(bytes) < 1 + k THEN DecodeFail
             ELSE [ok |-> TRUE, val |-> LeVal(SubSeq(bytes, 2, 1 + k)),
                   rest |-> SubSeq(bytes, 2 + k, Len(bytes))]

\* The elements of a Vec<u32>, one varint each.
RECURSIVE EncodeElems(_)
EncodeElems(vals) ==
    IF Len(vals) = 0 THEN <<>>
    ELSE VarintEncode(vals[1]) \o EncodeElems(Tail(vals))

\* Option<Vec<V>>: a presence byte, the length, the elements.
EncodeOptVec(o) ==
    IF IsSome(o) THEN <<1>> \o VarintEncode(Len(o[1])) \o EncodeElems(o[1])
    ELSE <<0>>

\* derive(Encode) on TrieNode: the fields l, r, v in declaration order, an
\* Option as a presence byte followed by its content.
RECURSIVE EncodeNode(_)
EncodeNode(node) ==
    (IF IsSome(node.l) THEN <<1>> \o EncodeNode(node.l[1]) ELSE <<0>>)
    \o (IF IsSome(node.r) THEN <<1>> \o EncodeNode(node.r[1]) ELSE <<0>>)
    \o EncodeOptVec(node.v)

RECURSIVE DecodeElems(_, _, _)
DecodeElems(bytes, n, acc) ==
    IF n = 0 THEN [ok |-> TRUE, val |-> acc, rest |-> bytes]
    ELSE LET e == VarintDecode(bytes, 252)
         IN  IF ~e.ok THEN DecodeFail
             ELSE DecodeElems(e.rest, n - 1, Append(acc, e.val))

\* The first byte, -1 at the end of the input.
FirstByte(bytes) == IF Len(bytes) = 0 THEN -1 ELSE bytes[1]

\* Option<Vec<V>>.  [ok, val, rest]
DecodeOptVec(bytes) ==
    CASE FirstByte(bytes) = 0 ->
           [ok |-> TRUE, val |-> None, rest |-> Tail(bytes)]
      [] FirstByte(bytes) = 1 ->
           LET n == VarintDecode(Tail(bytes), 253)
               e == IF n.ok THEN DecodeElems(n.rest, n.val, <<>>)
                    ELSE DecodeFail
           IN  IF e.ok THEN [ok |-> TRUE, val |-> Some(e.val), rest |-> e.rest]
               ELSE DecodeFail
      [] OTHER -> DecodeFail

\* derive(Decode) on Option<Box<TrieNode>>: a presence byte, then the
\* fields l, r, v of the node.  [ok, val, rest]; rest is empty after a
\* failure, so that whatever is decoded after a failure fails too.  A
\* presence byte other than 0 or 1, or the end of the bytes, is a decode
\* error.
RECURSIVE DecodeOptNode(_)
DecodeOptNode(bytes) ==
    CASE FirstByte(bytes) = 0 ->
           [ok |-> TRUE, val |-> None, rest |-> Tail(bytes)]
      [] FirstByte(bytes) = 1 ->
           LET l == DecodeOptNode(Tail(bytes))
               r == DecodeOptNode(l.rest)
               v == DecodeOptVec(r.rest)
           IN  [ok |-> l.ok /\ r.ok /\ v.ok,
                val |-> <<[l |-> l.val, r |-> r.val, v |-> v.val]>>,
                rest |-> v.rest]
      [] OTHER -> DecodeFail

\* derive(Decode) on TrieNode (and on Trie, whose only field is the root).
DecodeNode(bytes) ==
    LET l == DecodeOptNode(bytes)
        r == DecodeOptNode(l.rest)
        v == DecodeOptVec(r.rest)
    IN  [ok |-> l.ok /\ r.ok /\ v.ok,
         val |-> [l |-> l.val, r |-> r.val, v |-> v.val],
         rest |-> v.rest]

\* bincode::decode_from_std_read: decodes one Trie from the front of the
\* reader; what follows it in the file is never read.
DecodeFromStdRead(bytes) == DecodeNode(bytes)

\* ----------------------------------------------------------------- inputs
NetA == Ipv4(183, 40, 20, 0)
NetB == Ipv4(183, 40, 21, 3)
NetC == Ipv4(20, 30, 40, 0)

\* Networks, prefix lengths and values the insertions draw from.
Nets == {NetA, NetB}
Prefixes == {0, 8, 24, 32}
BadPrefixes == {33, 64}
Values == {3, 420}

\* Addresses the get and contains_ip calls are made with.
LookupIps == {NetA, NetC, Ipv4(20, 30, 40, 1)}

\* Addresses the properties are stated for.
Queries == {NetA, NetB, NetC, Ipv4(183, 41, 24, 249), Ipv4(20, 30, 40, 1)}

\* CIDR texts, each with the defect it carries ("none" for a valid CIDR).
CidrA8 == [text |-> <<"1", "8", "3", ".", "4", "0", ".", "2", "0", ".", "0", "/", "8">>,
    defect |-> "none"]
CidrC32 == [text |-> <<"2", "0", ".", "3", "0", ".", "4", "0", ".", "0", "/", "3", "2">>,
    defect |-> "none"]
CidrPlus == [text |-> <<"1", "8", "3", ".", "4", "0", ".", "2", "1", ".", "3", "/", "+", "2", "4">>,
    defect |-> "none"]
CidrNoSep == [text |-> <<"1", ".", "2", ".", "3", ".", "4">>,
    defect |-> "separator_absent"]
CidrNoSepBadNet == [text |-> <<"1", ".", "2", ".", "3">>,
    defect |-> "separator_absent"]
CidrTwoSep == [text |-> <<"1", ".", "2", ".", "3", ".", "4", "/", "8", "/", "9">>,
    defect |-> "separator_duplicated"]
CidrOctet256 == [text |-> <<"1", ".", "2", ".", "3", ".", "2", "5", "6", "/", "8">>,
    defect |-> "octet_invalid"]
CidrOctetAlpha == [text |-> <<"1", ".", "2", ".", "x", ".", "4", "/", "8">>,
    defect |-> "octet_invalid"]
CidrOctetZero == [text |-> <<"1", ".", "0", "2", ".", "3", ".", "4", "/", "8">>,
    defect |-> "octet_invalid"]
CidrThree == [text |-> <<"1", ".", "2", ".", "3", "/", "8">>,
    defect |-> "octet_count"]
CidrFive == [text |-> <<"1", ".", "2", ".", "3", ".", "4", ".", "5", "/", "8">>,
    defect |-> "octet_count"]
CidrPrefix33 == [text |-> <<"1", ".", "2", ".", "3", ".", "4", "/", "3", "3">>,
    defect |-> "prefix_invalid"]
CidrPrefixAlpha == [text |-> <<"1", ".", "2", ".", "3", ".", "4", "/", "x">>,
    defect |-> "prefix_invalid"]
CidrPrefixEmpty == [text |-> <<"1", ".", "2", ".", "3", ".", "4", "/">>,
    defect |-> "prefix_invalid"]
CidrPrefixHuge == [text |-> <<"1", ".", "2", ".", "3", ".", "4", "/", "4", "2", "9", "4", "9", "6", "7", "2", "9", "6">>,
    defect |-> "prefix_invalid"]

GoodCidrs == {CidrA8, CidrC32, CidrPlus}
BadCidrs == {CidrNoSep, CidrNoSepBadNet, CidrTwoSep, CidrOctet256, CidrOctetAlpha, CidrOctetZero,
             CidrThree, CidrFive, 
             CidrPrefix33, CidrPrefixAlpha, CidrPrefixEmpty, CidrPrefixHuge}

\* ------------------------------------------------------------------ state
VARIABLES
    overflow_checks,  \* build profile: TRUE when arithmetic overflow panics
                      \* (debug), FALSE when it wraps (release)
    root,             \* Trie.root of the trie t being built
    hist,             \* the insertions that returned, in order
    file,             \* what is at the persistence path
    saved,            \* the root write_to_file last encoded, if any
    tt,               \* the trie the last read_from_file returned, if any
    call,             \* the last call: operation, arguments, outcome
    buffer            \* the buffer the last get / contains_ip filled

vars == <<overflow_checks, root, hist, file, saved, tt, call, buffer>>

NoFile == [kind |-> "absent", bytes |-> <<>>, damage |-> "none"]

Call(op, outcome, ip, prefix, defect) ==
    [op |-> op, outcome |-> outcome, ip |-> ip, prefix |-> prefix,
     defect |-> defect]

\* A panic unwinds the caller: nothing runs after it.
Running == call.outcome \in {"init", "ok", "err"}

Init ==
    /\ overflow_checks \in BOOLEAN
    /\ root = EmptyNode
    /\ hist = <<>>
    /\ file = NoFile
    /\ saved = None
    /\ tt = None
    /\ call = Call("new", "init", AllOnes, 0, "none")
    /\ buffer = <<>>

\* (32 - prefix) & 31: the shift amount a wrapping build uses.  2^32 is a
\* multiple of 32, so the wrapped difference has the low five bits of the
\* mathematical one.
WrappedShift(prefix) == (((W - prefix) % W) + W) % W

\* 0xffffffffu32 << (32 - prefix).  With overflow checks the subtraction
\* panics for prefix > 32 and the shift panics for an amount of 32; without
\* them the subtraction wraps and the shift amount is taken modulo 32.
MaskOf(prefix, checks) ==
    IF checks /\ prefix > W
    THEN [panic |-> "panic_subtract_overflow", mask |-> AllOnes]
    ELSE IF checks /\ W - prefix >= W
    THEN [panic |-> "panic_shift_overflow", mask |-> AllOnes]
    ELSE [panic |-> "", mask |-> Shl(AllOnes, WrappedShift(prefix))]

\* The insertion shared by insert_net_and_prefix and insert_cidr.
InsertMasked(op, net, prefix, value, defect) ==
    LET m == MaskOf(prefix, overflow_checks)
    IN  IF m.panic # ""
        THEN /\ call' = Call(op, m.panic, net, prefix, defect)
             /\ UNCHANGED <<root, hist>>
        ELSE /\ root' = Insert(root, net, m.mask, value)
             /\ hist' = Append(hist, [net |-> net, prefix |-> prefix,
                                      value |-> value])
             /\ call' = Call(op, "ok", net, prefix, defect)

\* Trie::insert_net_and_prefix
InsertNetAndPrefix(net, prefix, value) ==
    /\ Running
    /\ Len(hist) < MaxInserts
    /\ InsertMasked("insert_net_and_prefix", net, prefix, value, "none")
    /\ buffer' = <<>>
    /\ UNCHANGED <<overflow_checks, file, saved, tt>>

\* Trie::insert_cidr: from_str(cidr).unwrap(), then the insertion.
InsertCidr(cidr, value) ==
    /\ Running
    /\ Len(hist) < MaxInserts
    /\ LET c == CidrFromStr(cidr.text)
       IN  IF c.kind = "ok"
           THEN InsertMasked("insert_cidr", c.net, c.prefix, value, cidr.defect)
           ELSE /\ call' = Call("insert_cidr",
                                IF c.kind = "err" THEN "panic_unwrap_parse_error"
                                ELSE "panic_index_out_of_bounds",
                                AllOnes, 0, cidr.defect)
                /\ UNCHANGED <<root, hist>>
    /\ buffer' = <<>>
    /\ UNCHANGED <<overflow_checks, file, saved, tt>>

\* CidrBlock::from_str called on its own.
FromStr(cidr) ==
    /\ Running
    /\ LET c == CidrFromStr(cidr.text)
       IN  call' = Call("from_str",
                        IF c.kind = "panic" THEN "panic_index_out_of_bounds"
                        ELSE c.kind,
                        c.net, c.prefix, cidr.defect)
    /\ buffer' = <<>>
    /\ UNCHANGED <<overflow_checks, root, hist, file, saved, tt>>

\* Trie::get on t
GetIp(ip) ==
    /\ Running
    /\ buffer' = Get(root, ip)
    /\ call' = Call("get", "ok", ip, 0, "none")
    /\ UNCHANGED <<overflow_checks, root, hist, file, saved, tt>>

\* Trie::contains_ip on t: the outcome is the boolean returned.
ContainsIpCall(ip) ==
    /\ Running
    /\ buffer' = NodeGet(root, ip, AllOnes, <<>>)
    /\ call' = Call(IF ContainsIp(root, ip) THEN "contains_ip_true"
                    ELSE "contains_ip_false", "ok", ip, 0, "none")
    /\ UNCHANGED <<overflow_checks, root, hist, file, saved, tt>>

\* Trie::write_to_file: open(write, create, truncate).unwrap(), encode.
WriteToFile ==
    /\ Running
    /\ IF file.kind = "denied"
       THEN /\ call' = Call("write_to_file", "panic_unwrap_io_error", AllOnes,
                            0, "none")
            /\ UNCHANGED <<file, saved>>
       ELSE /\ file' = [kind |-> "data", bytes |-> EncodeNode(root),
                        damage |-> "none"]
            /\ saved' = Some(root)
            /\ call' = Call("write_to_file", "ok", AllOnes, 0, "none")
    /\ buffer' = <<>>
    /\ UNCHANGED <<overflow_checks, root, hist, tt>>

\* Trie::read_from_file: any failure to open yields Trie::empty(); a decode
\* error is unwrapped.
ReadFromFile ==
    /\ Running
    /\ IF file.kind # "data"
       THEN /\ tt' = Some(EmptyNode)
            /\ call' = Call("read_from_file", "ok", AllOnes, 0, "none")
       ELSE LET d == DecodeFromStdRead(file.bytes)
            IN  IF d.ok
                THEN /\ tt' = Some(d.val)
                     /\ call' = Call("read_from_file", "ok", AllOnes, 0, "none")
                ELSE /\ tt' = tt
                     /\ call' = Call("read_from_file",
                                     "panic_unwrap_decode_error", AllOnes, 0,
                                     "none")
    /\ buffer' = <<>>
    /\ UNCHANGED <<overflow_checks, root, hist, file, saved>>

\* The environment of the persistence path: the file is removed, made
\* unreadable, cut short, extended, or its first presence byte overwritten.
RemoveFile ==
    /\ Running
    /\ file.kind # "absent"
    /\ file' = NoFile
    /\ UNCHANGED <<overflow_checks, root, hist, saved, tt, call, buffer>>

DenyFile ==
    /\ Running
    /\ file.kind = "data"
    /\ file' = [file EXCEPT !.kind = "denied"]
    /\ UNCHANGED <<overflow_checks, root, hist, saved, tt, call, buffer>>

TruncateFile ==
    /\ Running
    /\ file.kind = "data" /\ file.damage = "none"
    /\ file' = [file EXCEPT !.bytes = SubSeq(file.bytes, 1, Len(file.bytes) - 1),
                            !.damage = "truncated"]
    /\ UNCHANGED <<overflow_checks, root, hist, saved, tt, call, buffer>>

AppendToFile(b) ==
    /\ Running
    /\ file.kind = "data" /\ file.damage = "none"
    /\ file' = [file EXCEPT !.bytes = Append(file.bytes, b),
                            !.damage = "trailing"]
    /\ UNCHANGED <<overflow_checks, root, hist, saved, tt, call, buffer>>

CorruptDiscriminant(b) ==
    /\ Running
    /\ file.kind = "data" /\ file.damage = "none"
    /\ file' = [file EXCEPT !.bytes = <<b>> \o Tail(file.bytes),
                            !.damage = "discriminant"]
    /\ UNCHANGED <<overflow_checks, root, hist, saved, tt, call, buffer>>

\* Building and querying a trie with valid arguments.
Next ==
    \/ \E n \in Nets, p \in Prefixes, v \in Values : InsertNetAndPrefix(n, p, v)
    \/ \E c \in GoodCidrs, v \in Values : InsertCidr(c, v)
    \/ \E a \in LookupIps : GetIp(a)
    \/ \E a \in LookupIps : ContainsIpCall(a)

Spec == Init /\ [][Next]_vars

\* Networks, prefixes and garbage bytes of the persistence runs.
PersistNets == {NetA, NetC}
PersistPrefixes == {1, 16}
GarbageBytes == {0, 7}
BadDiscriminants == {2, 255}

\* Building a trie, saving it and loading it, with the file at the mercy of
\* its environment in between.
NextPersist ==
    \/ \E n \in PersistNets, p \in PersistPrefixes, v \in Values :
           InsertNetAndPrefix(n, p, v)
    \/ WriteToFile
    \/ ReadFromFile
    \/ RemoveFile
    \/ DenyFile
    \/ TruncateFile
    \/ \E b \in GarbageBytes : AppendToFile(b)
    \/ \E b \in BadDiscriminants : CorruptDiscriminant(b)

SpecPersist == Init /\ [][NextPersist]_vars

\* Every argument a caller can pass, valid or not.
NextAnyInput ==
    \/ \E n \in Nets, p \in Prefixes \cup BadPrefixes, v \in Values :
           InsertNetAndPrefix(n, p, v)
    \/ \E c \in GoodCidrs \cup BadCidrs, v \in Values : InsertCidr(c, v)
    \/ \E c \in GoodCidrs \cup BadCidrs : FromStr(c)

SpecAnyInput == Init /\ [][NextAnyInput]_vars

\* Building a trie with prefixes 1..=32 only.
NextPositivePrefix ==
    \/ \E n \in Nets \cup {NetC}, p \in {1, 8, 24, 31, 32}, v \in Values :
           InsertNetAndPrefix(n, p, v)
    \/ \E c \in GoodCidrs, v \in Values : InsertCidr(c, v)

SpecPositivePrefix == Init /\ [][NextPositivePrefix]_vars

\* ----------------------------------------------------------------- claims
\* The top p bits of a equal the top p bits of n.
Matches(a, n, p) == \A i \in 1..p : a[i] = n[i]

\* x occurs in buf somewhere before an occurrence of y.
Before(buf, x, y) ==
    \E k \in 1..Len(buf), m \in 1..Len(buf) : k < m /\ buf[k] = x /\ buf[m] = y

\* The node k steps down from node along the bits of ip, if there is one.
RECURSIVE NodeAt(_, _, _)
NodeAt(node, ip, k) ==
    CASE k = 0 -> Some(node)
      [] TopBitClear(ip) /\ IsSome(node.l) -> NodeAt(node.l[1], Shl1(ip), k - 1)
      [] ~TopBitClear(ip) /\ IsSome(node.r) -> NodeAt(node.r[1], Shl1(ip), k - 1)
      [] OTHER -> None

\* The nodes at depth k, as a set.
RECURSIVE Level(_, _)
Level(node, k) ==
    CASE k = 0 -> {node}
      [] OTHER -> UNION {{c.l[i] : i \in 1..Len(c.l)} \cup {c.r[i] : i \in 1..Len(c.r)} :
                         c \in Level(node, k - 1)}

\* C1: after any insertions, every inserted (n, p, v) with p in 0..=32 is
\* returned by get(a) for every address a whose top p bits are those of n;
\* a value inserted with prefix 0 is returned for every address.
C1_InsertedValueReturnedForMatchingAddress ==
    \A i \in 1..Len(hist), a \in Queries :
        Matches(a, hist[i].net, hist[i].prefix)
            => hist[i].value \in Range(Get(root, a))

\* C2: an address contained in none of the inserted prefixes gets the empty
\* sequence, and contains_ip is false for it; the get and contains_ip calls
\* made return exactly that.
C2_UnmatchedAddressGetsNothing ==
    /\ \A a \in Queries :
          (\A i \in 1..Len(hist) : ~Matches(a, hist[i].net, hist[i].prefix))
              => Get(root, a) = <<>> /\ ~ContainsIp(root, a)
    /\ (/\ call.op \in {"get", "contains_ip_true", "contains_ip_false"}
        /\ \A i \in 1..Len(hist) : ~Matches(call.ip, hist[i].net, hist[i].prefix))
           => buffer = <<>> /\ call.op # "contains_ip_true"

\* C2 witness: a value was inserted with prefix 32 and contains_ip was
\* asked about an address differing from its network in the last bit only,
\* with another prefix in the trie.
C2_Witness ==
    /\ Len(hist) = 2
    /\ \E i \in 1..Len(hist) : hist[i].prefix = W /\ hist[i].net = NetC
    /\ call.op = "contains_ip_false"
    /\ call.ip = Ipv4(20, 30, 40, 1)
    /\ ContainsIp(root, NetC)

\* buf lists values of matching insertions, each insertion at most once, in
\* the order of their prefix lengths and, within one prefix length, in the
\* order of insertion.
OrderedByPrefix(buf, a) ==
    \E idx \in [1..Len(buf) -> 1..Len(hist)] :
        /\ \A k \in 1..Len(buf) :
              /\ hist[idx[k]].value = buf[k]
              /\ Matches(a, hist[idx[k]].net, hist[idx[k]].prefix)
        /\ \A k \in 1..Len(buf), m \in 1..Len(buf) :
              k < m => \/ hist[idx[k]].prefix < hist[idx[m]].prefix
                       \/ /\ hist[idx[k]].prefix = hist[idx[m]].prefix
                          /\ idx[k] < idx[m]

\* C3: for every address, get returns the values from the shortest matching
\* prefix to the longest, whatever the insertion order; values of one prefix
\* in insertion order.
C3_GetOrderedShortestToLongestPrefix ==
    \A a \in Queries : OrderedByPrefix(Get(root, a), a)

\* C4: insertion is a pure append: after inserting the same (net, prefix)
\* with x and then y, get on every address matching the prefix returns x
\* and y, x before y; and what get returned before a step it still returns
\* after it.
C4_InsertIsPureAppend ==
    [][/\ \A i \in 1..Len(hist'), j \in 1..Len(hist') :
            (i < j /\ hist'[i].net = hist'[j].net
                   /\ hist'[i].prefix = hist'[j].prefix)
            => \A a \in Queries :
                   Matches(a, hist'[i].net, hist'[i].prefix)
                       => Before(Get(root', a), hist'[i].value, hist'[j].value)
       /\ \A a \in Queries :
            /\ Range(Get(root, a)) \subseteq Range(Get(root', a))
            /\ Len(Get(root, a)) <= Len(Get(root', a))]_vars

\* C5: write_to_file followed by read_from_file of the file as written
\* yields a trie equal to the one written: the same nodes, the same values
\* in the same order, the same get for every address.
C5_WriteThenReadRoundTrip ==
    (/\ call.op = "read_from_file"
     /\ file.kind = "data"
     /\ file.damage = "none")
        => /\ call.outcome = "ok"
           /\ tt = saved
           /\ \A a \in Queries : Get(tt[1], a) = Get(saved[1], a)

\* C5 witness: a trie holding two values, one of them needing a multi-byte
\* varint, in nodes at two depths, was written and read back.
C5_Witness ==
    /\ call.op = "read_from_file"
    /\ file.kind = "data"
    /\ file.damage = "none"
    /\ saved = Some(root)
    /\ tt = Some(root)
    /\ Len(hist) = 2
    /\ hist[1].prefix # hist[2].prefix
    /\ \E i \in 1..Len(hist) : hist[i].value = 420

\* C6: insert_net_and_prefix with a prefix above 32 fails and leaves the
\* trie as it was.
C6_PrefixAbove32Rejected ==
    [][(call'.op = "insert_net_and_prefix" /\ call'.prefix > W)
           => (call'.outcome # "ok" /\ root' = root)]_vars

\* C7: from_str on a text with a missing or duplicated separator, an
\* invalid octet, a wrong number of octets or a prefix that is no integer
\* in 0..=32 returns a parse error as a value; insert_cidr on such a text
\* fails with the parse error and leaves the trie as it was.
C7_MalformedCidrIsParseError ==
    [][/\ (call'.op = "from_str" /\ call'.defect # "none")
            => call'.outcome = "err"
       /\ (call'.op = "insert_cidr" /\ call'.defect # "none")
            => (call'.outcome = "panic_unwrap_parse_error" /\ root' = root)]_vars

\* C8: read_from_file returns an empty trie when the path does not exist,
\* and a file that exists but cannot be opened gives an I/O error and no
\* trie.
C8_EmptyTrieOnlyWhenFileAbsent ==
    [][ReadFromFile =>
         /\ file.kind = "absent" =>
               /\ call'.outcome = "ok"
               /\ tt' = Some(EmptyNode)
               /\ \A a \in Queries :
                      Get(tt'[1], a) = <<>> /\ ~ContainsIp(tt'[1], a)
         /\ file.kind = "denied" =>
               /\ call'.outcome = "panic_unwrap_io_error"
               /\ tt' = tt]_vars

\* C9: read_from_file of a file that is not exactly the encoding of one
\* trie (cut short, followed by more bytes, or with an illegal presence
\* byte) gives a decode error and returns no trie.
C9_MalformedFileIsDecodeError ==
    [][(ReadFromFile /\ file.kind = "data" /\ file.damage # "none")
           => (call'.outcome = "panic_unwrap_decode_error" /\ tt' = tt)]_vars

\* C10: in a trie built by insertions with prefixes in 0..=32 no node lies
\* deeper than 32, a node at depth 32 has no children, a value inserted
\* with prefix p sits in the node at depth p on the path of its network,
\* and a get walk visits at most 33 nodes.
C10_DepthBoundedAndValueAtPrefixDepth ==
    /\ Level(root, W + 1) = {}
    /\ \A c \in Level(root, W) : c.l = None /\ c.r = None
    /\ \A i \in 1..Len(hist) :
          LET o == NodeAt(root, hist[i].net, hist[i].prefix)
          IN  /\ IsSome(o)
              /\ IsSome(o[1].v)
              /\ hist[i].value \in Range(o[1].v[1])
    /\ \A a \in Queries : NodeGetVisits(root, a, AllOnes) <= W + 1

====
